---- MODULE Spec2Model ----
(***************************************************************************)
(* Order settlement core of the game shop backend (src/server.js).         *)
(*                                                                         *)
(* The Firestore documents are the state; every HTTP handler is a request  *)
(* that runs in a slot of `req`, one action per await point, so that the   *)
(* steps of concurrent requests interleave exactly where the handler       *)
(* yields.  A db.runTransaction callback that reads nothing inside the     *)
(* transaction commits its writes atomically but unconditionally: the      *)
(* values it writes were computed from documents read before it began.     *)
(***************************************************************************)
EXTENDS Integers, FiniteSets, Sequences, TLC

(***************************************************************************)
(* Bounds of the model                                                     *)
(***************************************************************************)
MaxSettle == 2      \* settlement requests (buy, checkout) started per run
MaxAux    == 1      \* cart / management / order-recording requests per concurrent run
MaxAuxSerial == 3   \* the same, per serialized run
MaxWallet == 6      \* top-ups stop once the wallet would pass this
MaxTime   == 2      \* clock ticks

Users   == {"u1", "u2"}
GameIds == {"g1", "g2"}
Slots   == {1, 2}

\* price of the two catalogue games (POST /api/games stores Number(price))
Price(g) == IF g = "g1" THEN 2 ELSE 4

TopUpAmounts == {-1, 0, 4}
CartQuantities == {-1, 0, 1}

DiscountId == "d1"
StoredCode == "SAVE"
PromoInputs == {"", "SAVE", "save"}
ExpireAt == 1

VARIABLES
  wallet,      \* users/{u}.wallet
  games,       \* games/{g}: [price, totalSold, isActive], domain = existing docs
  orders,      \* number of completed Order records per <<user, game>>
  library,     \* users/{u}/library doc ids
  cart,        \* users/{u}/cart/{g}.quantity, domain = existing docs
  discounts,   \* discounts/{id}, domain = existing docs
  now,         \* the clock new Date() reads
  req,         \* request slots: handler, position and locals
  response,    \* the response sent last by a buy, a checkout or a discount listing
  settleLeft,  \* settlement requests that may still start
  auxLeft,     \* cart, order-recording and management requests that may still start
  cache        \* the in-memory Map behind getCache/setCache: key -> [data, expire]

vars == <<wallet, games, orders, library, cart, discounts, now, req, response, settleLeft, auxLeft,
          cache>>
store == <<wallet, games, orders, library, cart, discounts>>

(***************************************************************************)
(* Helpers                                                                 *)
(***************************************************************************)
Empty == <<>>

RECURSIVE SumOver(_, _)
SumOver(f, S) ==
  IF S = {} THEN 0
  ELSE LET x == CHOOSE y \in S : TRUE IN f[x] + SumOver(f, S \ {x})

Max(a, b) == IF a >= b THEN a ELSE b

\* String.prototype.toUpperCase on the codes the model uses
ToUpperCase(s) == IF s = "save" THEN "SAVE" ELSE s

\* JS `x || 1`
OrOne(x) == IF x = 0 THEN 1 ELSE x

NoGame == [price |-> 0, totalSold |-> 0]
NoData == [code |-> "", type |-> "", value |-> 0, minSpend |-> 0, maxDiscount |-> 0,
           usageLimit |-> 0, usedCount |-> 0, usedBy |-> {}, isActive |-> FALSE,
           expireAt |-> 0]

Idle == [op |-> "idle", pc |-> "idle", u |-> "", g |-> "", promo |-> "", q |-> 0,
         existed |-> FALSE, wallet |-> 0, game |-> NoGame, cartSnap |-> Empty,
         filtered |-> Empty, gameMap |-> Empty, total |-> 0, discount |-> 0, dref |-> "",
         ddata |-> NoData, finalTotal |-> 0, promoCodeUsed |-> FALSE]

\* a request takes the first free slot
Free(s) == req[s].pc = "idle" /\ \A t \in Slots : t < s => req[t].pc # "idle"

\* res.json / res.status(..).json: the request ends and its slot is free again
Respond(s, result) ==
  /\ req' = [req EXCEPT ![s] = Idle]
  /\ response' = [op |-> req[s].op, u |-> req[s].u, res |-> result]

\* the response of any other request, which the model does not record
Finish(s) ==
  /\ req' = [req EXCEPT ![s] = Idle]
  /\ UNCHANGED response

Continue(s, r) ==
  /\ req' = [req EXCEPT ![s] = r]
  /\ UNCHANGED response

\* the game record POST /api/games creates
NewGame(g) == [price |-> Price(g), totalSold |-> 0, isActive |-> TRUE]

\* the discount records POST /api/discounts creates
FixedCode == [code |-> StoredCode, type |-> "fixed", value |-> 1, minSpend |-> 0,
              maxDiscount |-> 0, usageLimit |-> 1, usedCount |-> 0, usedBy |-> {},
              isActive |-> TRUE, expireAt |-> ExpireAt]
PercentCode == [code |-> StoredCode, type |-> "percent", value |-> 50, minSpend |-> 4,
                maxDiscount |-> 1, usageLimit |-> 2, usedCount |-> 0, usedBy |-> {},
                isActive |-> TRUE, expireAt |-> ExpireAt]

InitStore ==
  /\ wallet = [u \in Users |-> 0]
  /\ games = [g \in GameIds |-> NewGame(g)]
  /\ orders = [k \in Users \X GameIds |-> 0]
  /\ library = [u \in Users |-> {}]
  /\ cart = [u \in Users |-> Empty]
  /\ discounts \in {[d \in {DiscountId} |-> FixedCode], [d \in {DiscountId} |-> PercentCode]}
  /\ now = 0
  /\ cache = Empty
  /\ req = [s \in Slots |-> Idle]
  /\ response = [op |-> "", u |-> "", res |-> ""]

Init ==
  /\ InitStore
  /\ settleLeft = MaxSettle
  /\ auxLeft = MaxAux

SerialInit ==
  /\ InitStore
  /\ settleLeft = MaxSettle
  /\ auxLeft = MaxAuxSerial

\* new Date() moves on
Tick ==
  /\ now < MaxTime
  /\ now' = now + 1
  /\ UNCHANGED <<store, req, response, settleLeft, auxLeft, cache>>

(***************************************************************************)
(* POST /api/users/topup                                                   *)
(***************************************************************************)
TopUpRejected(amount) == amount = 0 \/ amount <= 0

TopUp(u, amount) ==
  /\ wallet[u] + amount <= MaxWallet
  /\ IF TopUpRejected(amount)
       THEN UNCHANGED wallet
       ELSE wallet' = [wallet EXCEPT ![u] = @ + amount]
  /\ UNCHANGED <<games, orders, library, cart, discounts, now, cache, req, response,
                 settleLeft, auxLeft>>

(***************************************************************************)
(* POST /api/orders/buy                                                    *)
(***************************************************************************)
BuyStart(s, u, g) ==
  /\ Free(s)
  /\ settleLeft > 0
  /\ settleLeft' = settleLeft - 1
  /\ Continue(s, [Idle EXCEPT !.op = "buy", !.pc = "read", !.u = u, !.g = g])
  /\ UNCHANGED <<store, now, cache, auxLeft>>

\* the funds check left out
BuyInsufficient_absent(w, price) == FALSE

BuyInsufficient(w, price) == w < price

BuyRead(s) ==
  LET r == req[s] IN
  /\ r.op = "buy" /\ r.pc = "read"
  /\ IF r.g \notin DOMAIN games
       THEN Respond(s, "GameNotFound")
       ELSE IF BuyInsufficient(wallet[r.u], games[r.g].price)
         THEN Respond(s, "InsufficientFunds")
         ELSE Continue(s, [r EXCEPT !.pc = "commit", !.wallet = wallet[r.u],
                                    !.game = [price |-> games[r.g].price,
                                              totalSold |-> games[r.g].totalSold]])
  /\ UNCHANGED <<store, now, cache, settleLeft, auxLeft>>

\* the library granted without the order record
BuyWrites_noOrder(r) ==
  /\ wallet' = [wallet EXCEPT ![r.u] = r.wallet - r.game.price]
  /\ UNCHANGED orders
  /\ games' = [games EXCEPT ![r.g].totalSold = r.game.totalSold + 1]
  /\ library' = [library EXCEPT ![r.u] = @ \cup {r.g}]

\* the sale not counted
BuyWrites_noSold(r) ==
  /\ wallet' = [wallet EXCEPT ![r.u] = r.wallet - r.game.price]
  /\ orders' = [orders EXCEPT ![<<r.u, r.g>>] = @ + 1]
  /\ UNCHANGED games
  /\ library' = [library EXCEPT ![r.u] = @ \cup {r.g}]

\* the four writes of the transaction, applied together
BuyWrites(r) ==
  /\ wallet' = [wallet EXCEPT ![r.u] = r.wallet - r.game.price]
  /\ orders' = [orders EXCEPT ![<<r.u, r.g>>] = @ + 1]
  /\ games' = [games EXCEPT ![r.g].totalSold = r.game.totalSold + 1]
  /\ library' = [library EXCEPT ![r.u] = @ \cup {r.g}]

BuyCommit(s) ==
  LET r == req[s] IN
  /\ r.op = "buy" /\ r.pc = "commit"
  /\ r.g \in DOMAIN games
  /\ BuyWrites(r)
  /\ Continue(s, [r EXCEPT !.pc = "reread"])
  /\ UNCHANGED <<cart, discounts, now, cache, settleLeft, auxLeft>>

\* the transaction throws: transaction.update of a deleted game document, or
\* the store failing the commit
BuyAbort(s) ==
  LET r == req[s] IN
  /\ r.op = "buy" /\ r.pc = "commit"
  /\ Respond(s, "ServerError")
  /\ UNCHANGED <<store, now, cache, settleLeft, auxLeft>>

BuyRespond(s) ==
  LET r == req[s] IN
  /\ r.op = "buy" /\ r.pc = "reread"
  /\ Respond(s, "ok")
  /\ UNCHANGED <<store, now, cache, settleLeft, auxLeft>>

(***************************************************************************)
(* POST /api/users/cart/add and /api/users/cart/remove                     *)
(***************************************************************************)
CartAddStart(s, u, g, q) ==
  /\ Free(s)
  /\ auxLeft > 0
  /\ auxLeft' = auxLeft - 1
  /\ Continue(s, [Idle EXCEPT !.op = "cartadd", !.pc = "write", !.u = u, !.g = g,
                              !.q = q, !.existed = g \in DOMAIN cart[u]])
  /\ UNCHANGED <<store, now, cache, settleLeft>>

\* cartRef.update fails when the document was removed after the get;
\* cartRef.set overwrites whatever is there
CartAddWrite(s) ==
  LET r == req[s]
      c == cart[r.u] IN
  /\ r.op = "cartadd" /\ r.pc = "write"
  /\ IF r.existed
       THEN IF r.g \in DOMAIN c
              THEN /\ cart' = [cart EXCEPT ![r.u] = [c EXCEPT ![r.g] = @ + OrOne(r.q)]]
                   /\ Finish(s)
              ELSE /\ UNCHANGED cart
                   /\ Finish(s)
       ELSE /\ cart' = [cart EXCEPT ![r.u] =
                          [h \in DOMAIN c \cup {r.g} |-> IF h = r.g THEN OrOne(r.q) ELSE c[h]]]
            /\ Finish(s)
  /\ UNCHANGED <<wallet, games, orders, library, discounts, now, cache, settleLeft, auxLeft>>

\* removing a document that is not there changes nothing
CartRemove(u, g) ==
  /\ g \in DOMAIN cart[u]
  /\ cart' = [cart EXCEPT ![u] = [h \in DOMAIN cart[u] \ {g} |-> cart[u][h]]]
  /\ UNCHANGED <<wallet, games, orders, library, discounts, now, cache, req, response,
                 settleLeft, auxLeft>>

(***************************************************************************)
(* POST /api/users/cart/checkout                                           *)
(***************************************************************************)
CheckoutStart(s, u, promo) ==
  /\ Free(s)
  /\ settleLeft > 0
  /\ settleLeft' = settleLeft - 1
  /\ Continue(s, [Idle EXCEPT !.op = "checkout", !.pc = "cart", !.u = u, !.promo = promo])
  /\ UNCHANGED <<store, now, cache, auxLeft>>

\* 1: the cart snapshot, quantity || 1
CheckoutReadCart(s) ==
  LET r == req[s]
      c == cart[r.u] IN
  /\ r.op = "checkout" /\ r.pc = "cart"
  /\ IF DOMAIN c = {}
       THEN Respond(s, "EmptyCart")
       ELSE Continue(s, [r EXCEPT !.pc = "library",
                                  !.cartSnap = [h \in DOMAIN c |-> OrOne(c[h])]])
  /\ UNCHANGED <<store, now, cache, settleLeft, auxLeft>>

\* the owned lines kept
FilteredCart_unfiltered(cartItems, ownedGameIds) == cartItems

\* the library read as empty
OwnedGameIds_none(u) == {}

\* 2: the ids of the library documents
OwnedGameIds(u) == library[u]

\* the lines whose game is not in the library
FilteredCart(cartItems, ownedGameIds) ==
  [h \in DOMAIN cartItems \ ownedGameIds |-> cartItems[h]]

\* the empty check on the filtered cart left out
CheckoutReadLibrary_noEmptyCheck(s) ==
  LET r == req[s]
      f == FilteredCart(r.cartSnap, OwnedGameIds(r.u)) IN
  /\ r.op = "checkout" /\ r.pc = "library"
  /\ Continue(s, [r EXCEPT !.pc = "games", !.filtered = f])
  /\ UNCHANGED <<store, now, cache, settleLeft, auxLeft>>

CheckoutReadLibrary(s) ==
  LET r == req[s]
      f == FilteredCart(r.cartSnap, OwnedGameIds(r.u)) IN
  /\ r.op = "checkout" /\ r.pc = "library"
  /\ IF DOMAIN f = {}
       THEN Respond(s, "AllOwned")
       ELSE Continue(s, [r EXCEPT !.pc = "games", !.filtered = f])
  /\ UNCHANGED <<store, now, cache, settleLeft, auxLeft>>

\* 4: sum of (game?.price || 0) * quantity
CartTotal(filteredCart, gameMap) ==
  LET line == [h \in DOMAIN filteredCart |->
                 (IF h \in DOMAIN gameMap THEN gameMap[h].price ELSE 0) * filteredCart[h]]
  IN SumOver(line, DOMAIN filteredCart)

FinalTotal(total, discount) == Max(total - discount, 0)

\* 3: the game documents of the filtered lines that exist
CheckoutReadGames(s) ==
  LET r == req[s]
      gm == [h \in DOMAIN r.filtered \cap DOMAIN games |->
               [price |-> games[h].price, totalSold |-> games[h].totalSold]]
      t == CartTotal(r.filtered, gm) IN
  /\ r.op = "checkout" /\ r.pc = "games"
  /\ Continue(s, [r EXCEPT !.gameMap = gm, !.total = t,
                           !.pc = IF r.promo # "" THEN "discount" ELSE "user",
                           !.finalTotal = FinalTotal(t, 0)])
  /\ UNCHANGED <<store, now, cache, settleLeft, auxLeft>>

\* the expiry not compared
CodeApplies_ignoresExpiry(d, t) == d.isActive

\* 5: the discount of a code that is active and not expired
CodeApplies(d, t) == d.isActive /\ d.expireAt > t

DiscountAmount(d, total) ==
  IF d.type = "percent" THEN (total * d.value) \div 100
  ELSE IF d.type = "fixed" THEN d.value
  ELSE 0

FindByCode(code) == {d \in DOMAIN discounts : discounts[d].code = code}

CheckoutReadDiscount(s) ==
  LET r == req[s]
      found == FindByCode(ToUpperCase(r.promo)) IN
  /\ r.op = "checkout" /\ r.pc = "discount"
  /\ IF found = {}
       THEN Continue(s, [r EXCEPT !.pc = "user"])
       ELSE LET d == CHOOSE x \in found : TRUE
                data == discounts[d]
                disc == IF CodeApplies(data, now) THEN DiscountAmount(data, r.total) ELSE 0
            IN Continue(s, [r EXCEPT !.pc = "user", !.dref = d, !.ddata = data,
                                     !.discount = disc,
                                     !.finalTotal = FinalTotal(r.total, disc)])
  /\ UNCHANGED <<store, now, cache, settleLeft, auxLeft>>

\* the usage step runs for a supplied code whose record was found
UsageStepRuns(r) == r.promo # "" /\ r.dref # ""

\* the funds check left out
CheckoutInsufficient_absent(w, finalTotal) == FALSE

\* 6: the funds check
CheckoutInsufficient(w, finalTotal) == w < finalTotal

\* the usage step moved in front of the transaction
CheckoutReadUser_usageFirst(s) ==
  LET r == req[s] IN
  /\ r.op = "checkout" /\ r.pc = "user"
  /\ IF CheckoutInsufficient(wallet[r.u], r.finalTotal)
       THEN Respond(s, "InsufficientFunds")
       ELSE Continue(s, [r EXCEPT !.pc = IF UsageStepRuns(r) THEN "usage" ELSE "commit",
                                  !.wallet = wallet[r.u]])
  /\ UNCHANGED <<store, now, cache, settleLeft, auxLeft>>

CheckoutReadUser(s) ==
  LET r == req[s] IN
  /\ r.op = "checkout" /\ r.pc = "user"
  /\ IF CheckoutInsufficient(wallet[r.u], r.finalTotal)
       THEN Respond(s, "InsufficientFunds")
       ELSE Continue(s, [r EXCEPT !.pc = "commit", !.wallet = wallet[r.u]])
  /\ UNCHANGED <<store, now, cache, settleLeft, auxLeft>>

\* 7: the lines the transaction writes (if (!game) continue)
SettledLines(r) == DOMAIN r.filtered \cap DOMAIN r.gameMap

CheckoutWrites(r) ==
  /\ wallet' = [wallet EXCEPT ![r.u] = r.wallet - r.finalTotal]
  /\ orders' = [k \in Users \X GameIds |->
                  IF k[1] = r.u /\ k[2] \in SettledLines(r) THEN orders[k] + 1 ELSE orders[k]]
  /\ games' = [h \in DOMAIN games |->
                 IF h \in SettledLines(r)
                   THEN [games[h] EXCEPT !.totalSold = r.gameMap[h].totalSold + r.filtered[h]]
                   ELSE games[h]]
  /\ library' = [library EXCEPT ![r.u] = @ \cup SettledLines(r)]
  /\ cart' = [cart EXCEPT ![r.u] = [h \in DOMAIN cart[r.u] \ DOMAIN r.cartSnap |-> cart[r.u][h]]]

CheckoutCommit(s) ==
  LET r == req[s] IN
  /\ r.op = "checkout" /\ r.pc = "commit"
  /\ SettledLines(r) \subseteq DOMAIN games
  /\ CheckoutWrites(r)
  /\ IF UsageStepRuns(r) THEN Continue(s, [r EXCEPT !.pc = "usage"])
                         ELSE Respond(s, "ok")
  /\ UNCHANGED <<discounts, now, cache, settleLeft, auxLeft>>

\* the rollback not guarded by promoCodeUsed
RollbackRuns_unguarded(r) == r.dref # ""

\* the catch block: the discount is rolled back if the usage step had run
RollbackRuns(r) == r.promoCodeUsed /\ r.dref # ""

\* the rollback putting the usage limit back to its default as well
RollbackUpdate_resetsLimit(d, data, u) ==
  [d EXCEPT !.usedCount = Max(OrOne(data.usedCount) - 1, 0), !.usedBy = @ \ {u},
            !.isActive = TRUE, !.usageLimit = 1]

RollbackUpdate(d, data, u) ==
  [d EXCEPT !.usedCount = Max(OrOne(data.usedCount) - 1, 0), !.usedBy = @ \ {u},
            !.isActive = TRUE]

CatchRollback(r) ==
  IF RollbackRuns(r) /\ r.dref \in DOMAIN discounts
    THEN discounts' = [discounts EXCEPT ![r.dref] = RollbackUpdate(@, r.ddata, r.u)]
    ELSE UNCHANGED discounts

\* the transaction throws: a settled game was deleted, or the store fails the
\* commit
CheckoutAbort(s) ==
  LET r == req[s] IN
  /\ r.op = "checkout" /\ r.pc = "commit"
  /\ CatchRollback(r)
  /\ Respond(s, "ServerError")
  /\ UNCHANGED <<wallet, games, orders, library, cart, now, cache, settleLeft, auxLeft>>

\* the usage step, computed from the record read in step 5
UsageUpdate(d, data, u) ==
  LET newUsedCount == data.usedCount + 1
      usageLimit == OrOne(data.usageLimit)
  IN [d EXCEPT !.usedBy = @ \cup {u}, !.usedCount = newUsedCount,
               !.isActive = newUsedCount < usageLimit]

\* a failed update is caught and logged; the response is the same
CheckoutUsage(s) ==
  LET r == req[s] IN
  /\ r.op = "checkout" /\ r.pc = "usage"
  /\ IF r.dref \in DOMAIN discounts
       THEN discounts' = [discounts EXCEPT ![r.dref] = UsageUpdate(@, r.ddata, r.u)]
       ELSE UNCHANGED discounts
  /\ Respond(s, "ok")
  /\ UNCHANGED <<wallet, games, orders, library, cart, now, cache, settleLeft, auxLeft>>

\* the usage failure escaping to the outer catch
UsageFailureResult_uncaught == "ServerError"

\* the response after the inner catch has logged the failure
UsageFailureResult == "ok"

\* the inner catch running the compensation
InnerCatch_compensates(r) ==
  IF r.dref \in DOMAIN discounts
    THEN discounts' = [discounts EXCEPT ![r.dref] = RollbackUpdate(@, r.ddata, r.u)]
    ELSE UNCHANGED discounts

\* the inner catch: console.error, nothing else
InnerCatch(r) == UNCHANGED discounts

\* discountDocRef.update throws (the store fails the write): the inner catch
\* logs it, promoCodeUsed stays false and the handler goes on to the response
CheckoutUsageFails(s) ==
  LET r == req[s] IN
  /\ r.op = "checkout" /\ r.pc = "usage"
  /\ InnerCatch(r)
  /\ Respond(s, UsageFailureResult)
  /\ UNCHANGED <<wallet, games, orders, library, cart, now, cache, settleLeft, auxLeft>>

(***************************************************************************)
(* POST /api/orders                                                        *)
(***************************************************************************)
RecordOrderStart(s, u, g, code) ==
  /\ Free(s)
  /\ auxLeft > 0
  /\ auxLeft' = auxLeft - 1
  /\ Continue(s, [Idle EXCEPT !.op = "order", !.pc = "add", !.u = u, !.g = g, !.promo = code])
  /\ UNCHANGED <<store, now, cache, settleLeft>>

RecordOrderAdd(s) ==
  LET r == req[s] IN
  /\ r.op = "order" /\ r.pc = "add"
  /\ orders' = [orders EXCEPT ![<<r.u, r.g>>] = @ + 1]
  /\ IF r.promo # "" THEN Continue(s, [r EXCEPT !.pc = "query"])
                     ELSE Finish(s)
  /\ UNCHANGED <<wallet, games, library, cart, discounts, now, cache, settleLeft, auxLeft>>

RecordOrderQuery(s) ==
  LET r == req[s]
      found == FindByCode(r.promo) IN
  /\ r.op = "order" /\ r.pc = "query"
  /\ IF found = {}
       THEN Finish(s)
       ELSE LET d == CHOOSE x \in found : TRUE
            IN Continue(s, [r EXCEPT !.pc = "update", !.dref = d, !.ddata = discounts[d]])
  /\ UNCHANGED <<store, now, cache, settleLeft, auxLeft>>

RecordOrderUpdate(s) ==
  LET r == req[s] IN
  /\ r.op = "order" /\ r.pc = "update"
  /\ IF r.dref \in DOMAIN discounts
       THEN /\ discounts' = [discounts EXCEPT ![r.dref].usedCount = r.ddata.usedCount + 1]
            /\ Finish(s)
       ELSE /\ UNCHANGED discounts
            /\ Finish(s)
  /\ UNCHANGED <<wallet, games, orders, library, cart, now, cache, settleLeft, auxLeft>>

(***************************************************************************)
(* Catalogue and discount management                                       *)
(***************************************************************************)
\* the cache keys of GET /api/games without filters and of GET /api/categories
GamesKey == "games:all:"
CategoriesKey == "categories"

\* String.prototype.startsWith on the keys and prefixes the model uses
StartsWith(key, prefix) == prefix = "games:" /\ key = GamesKey

\* the time-to-live of the two listings, in clock ticks
GamesTtl == 1
CategoriesTtl == 2

\* setCache(key, data, ttl)
setCache(c, key, data, ttl, t) ==
  [k \in DOMAIN c \cup {key} |-> IF k = key THEN [data |-> data, expire |-> t + ttl] ELSE c[k]]

\* an entry counting as expired from its expiry time on
Expired_atExpiry(entry, t) == t >= entry.expire

\* Date.now() > c.expire
Expired(entry, t) == t > entry.expire

\* getCache(key): what it returns (hit is false for null) and the Map it leaves
getCache(c, key, t) ==
  IF key \notin DOMAIN c THEN [hit |-> FALSE, data |-> Empty, cache |-> c]
  ELSE IF Expired(c[key], t)
         THEN [hit |-> FALSE, data |-> Empty, cache |-> [k \in DOMAIN c \ {key} |-> c[k]]]
         ELSE [hit |-> TRUE, data |-> c[key].data, cache |-> c]

\* clearCacheByPrefix(prefix)
clearCacheByPrefix(c, prefix) == [k \in {x \in DOMAIN c : ~StartsWith(x, prefix)} |-> c[k]]

\* DELETE /api/games/:id: a missing game is answered 404 before any write
DeleteGame(g) ==
  /\ auxLeft > 0
  /\ auxLeft' = auxLeft - 1
  /\ IF g \in DOMAIN games
       THEN /\ games' = [h \in DOMAIN games \ {g} |-> games[h]]
            /\ cache' = clearCacheByPrefix(cache, "games:")
       ELSE UNCHANGED <<games, cache>>
  /\ UNCHANGED <<wallet, orders, library, cart, discounts, now, req, response, settleLeft>>

\* the documents GET /api/games lists: isActive !== false
ListedGames == [h \in {x \in DOMAIN games : games[x].isActive} |-> games[h]]

\* GET /api/games: a cached listing is the response at once
ListGamesStart(s) ==
  LET got == getCache(cache, GamesKey, now) IN
  /\ Free(s)
  /\ cache' = got.cache
  /\ IF got.hit
       THEN /\ UNCHANGED req
            /\ response' = [op |-> "games", u |-> "", res |-> "cached"]
       ELSE Continue(s, [Idle EXCEPT !.op = "games", !.pc = "read"])
  /\ UNCHANGED <<store, now, settleLeft, auxLeft>>

\* await db.collection("games").get()
ListGamesRead(s) ==
  LET r == req[s] IN
  /\ r.op = "games" /\ r.pc = "read"
  /\ Continue(s, [r EXCEPT !.pc = "set", !.gameMap = ListedGames])
  /\ UNCHANGED <<store, now, cache, settleLeft, auxLeft>>

\* setCache(key, games, 30_000), then the response
ListGamesSet(s) ==
  LET r == req[s] IN
  /\ r.op = "games" /\ r.pc = "set"
  /\ cache' = setCache(cache, GamesKey, r.gameMap, GamesTtl, now)
  /\ Respond(s, "fresh")
  /\ UNCHANGED <<store, now, settleLeft, auxLeft>>

\* the seeded categories
CategoryDocs == [c \in {"c1"} |-> "category"]

\* GET /api/categories
ListCategoriesStart(s) ==
  LET got == getCache(cache, CategoriesKey, now) IN
  /\ Free(s)
  /\ cache' = got.cache
  /\ IF got.hit
       THEN /\ UNCHANGED req
            /\ response' = [op |-> "categories", u |-> "", res |-> "cached"]
       ELSE Continue(s, [Idle EXCEPT !.op = "categories", !.pc = "read"])
  /\ UNCHANGED <<store, now, settleLeft, auxLeft>>

\* the store read, setCache(key, data, 60_000) and the response
ListCategoriesSet(s) ==
  LET r == req[s] IN
  /\ r.op = "categories" /\ r.pc = "read"
  /\ cache' = setCache(cache, CategoriesKey, CategoryDocs, CategoriesTtl, now)
  /\ Respond(s, "fresh")
  /\ UNCHANGED <<store, now, settleLeft, auxLeft>>

\* PUT /api/discounts/:id/toggle
ToggleDiscount(d, isActive) ==
  /\ auxLeft > 0
  /\ auxLeft' = auxLeft - 1
  /\ IF d \in DOMAIN discounts
       THEN discounts' = [discounts EXCEPT ![d].isActive = isActive]
       ELSE UNCHANGED discounts
  /\ UNCHANGED <<wallet, games, orders, library, cart, now, cache, req, response, settleLeft>>

\* DELETE /api/discounts/:id
DeleteDiscount(d) ==
  /\ auxLeft > 0
  /\ auxLeft' = auxLeft - 1
  /\ discounts' = [h \in DOMAIN discounts \ {d} |-> discounts[h]]
  /\ UNCHANGED <<wallet, games, orders, library, cart, now, cache, req, response, settleLeft>>

\* the expiry not compared
SweepSet_allActive(t) == {d \in DOMAIN discounts : discounts[d].isActive}

\* GET /api/discounts: the codes that are expired and still active
SweepSet(t) == {d \in DOMAIN discounts : discounts[d].expireAt < t /\ discounts[d].isActive}

ListDiscountsStart(s) ==
  /\ Free(s)
  /\ auxLeft > 0
  /\ auxLeft' = auxLeft - 1
  /\ IF SweepSet(now) = {}
       THEN /\ UNCHANGED req
            /\ response' = [op |-> "list", u |-> "", res |-> "ok"]
       ELSE Continue(s, [Idle EXCEPT !.op = "list", !.pc = "sweep",
                                     !.dref = CHOOSE d \in SweepSet(now) : TRUE])
  /\ UNCHANGED <<store, now, cache, settleLeft>>

ListDiscountsSweep(s) ==
  LET r == req[s] IN
  /\ r.op = "list" /\ r.pc = "sweep"
  /\ IF r.dref \in DOMAIN discounts
       THEN /\ discounts' = [discounts EXCEPT ![r.dref].isActive = FALSE]
            /\ Respond(s, "ok")
       ELSE /\ UNCHANGED discounts
            /\ Respond(s, "ServerError")
  /\ UNCHANGED <<wallet, games, orders, library, cart, now, cache, settleLeft, auxLeft>>

\* the subtotals a client sends with a preview
PreviewSubtotals == {0, 2, 4}

\* POST /api/users/cart/validate-promo queries `where("code", "==", promoCode)`
PreviewLookupKey(promo) == promo

\* the checks of the preview on the record it found, in the order of the code
PreviewChecks(data, subtotal, u, t) ==
  IF data.expireAt < t THEN "Expired"
  ELSE IF subtotal # 0 /\ subtotal < data.minSpend THEN "MinSpend"
  ELSE IF data.usageLimit # 0 /\ data.usedCount >= data.usageLimit THEN "UsedUp"
  ELSE IF u \in data.usedBy THEN "UsedBy"
  ELSE "valid"

PreviewResult(promo, subtotal, u, t) ==
  LET found == FindByCode(PreviewLookupKey(promo)) IN
  IF promo = "" THEN "NoCode"
  ELSE IF found = {} THEN "NotFound"
  ELSE PreviewChecks(discounts[CHOOSE d \in found : TRUE], subtotal, u, t)

\* POST /api/users/cart/validate-promo: one query, then the response
ValidatePromo(u, promo, subtotal) ==
  /\ auxLeft > 0
  /\ auxLeft' = auxLeft - 1
  /\ response' = [op |-> "validate-promo", u |-> u, res |-> PreviewResult(promo, subtotal, u, now)]
  /\ UNCHANGED <<store, now, cache, req, settleLeft>>

(***************************************************************************)
(* Settlement under concurrency: shoppers and order recording run in any   *)
(* interleaving while the catalogue loses games                            *)
(***************************************************************************)
Starts ==
  \/ \E s \in Slots, u \in Users, g \in GameIds : BuyStart(s, u, g)
  \/ \E s \in Slots, u \in Users, g \in GameIds, q \in CartQuantities : CartAddStart(s, u, g, q)
  \/ \E s \in Slots, u \in Users, c \in PromoInputs : CheckoutStart(s, u, c)
  \/ \E s \in Slots, u \in Users, g \in GameIds, c \in {"", StoredCode} :
       RecordOrderStart(s, u, g, c)
  \/ \E u \in Users, a \in TopUpAmounts : TopUp(u, a)
  \/ \E u \in Users, g \in GameIds : CartRemove(u, g)
  \/ \E g \in GameIds : DeleteGame(g)

Steps ==
  \/ \E s \in Slots : BuyRead(s)
  \/ \E s \in Slots : BuyCommit(s)
  \/ \E s \in Slots : BuyAbort(s)
  \/ \E s \in Slots : BuyRespond(s)
  \/ \E s \in Slots : CartAddWrite(s)
  \/ \E s \in Slots : CheckoutReadCart(s)
  \/ \E s \in Slots : CheckoutReadLibrary(s)
  \/ \E s \in Slots : CheckoutReadGames(s)
  \/ \E s \in Slots : CheckoutReadDiscount(s)
  \/ \E s \in Slots : CheckoutReadUser(s)
  \/ \E s \in Slots : CheckoutCommit(s)
  \/ \E s \in Slots : CheckoutAbort(s)
  \/ \E s \in Slots : CheckoutUsage(s)
  \/ \E s \in Slots : CheckoutUsageFails(s)
  \/ \E s \in Slots : RecordOrderAdd(s)
  \/ \E s \in Slots : RecordOrderQuery(s)
  \/ \E s \in Slots : RecordOrderUpdate(s)

Next == Starts \/ Steps

Spec == Init /\ [][Next]_vars

(***************************************************************************)
(* The discount ledger: checkouts, each running to completion before the   *)
(* next request starts, while codes are managed and expire                 *)
(***************************************************************************)
AllIdle == \A s \in Slots : req[s].pc = "idle"

LedgerStarts ==
  \/ \E s \in Slots, u \in Users, g \in GameIds, q \in {0, 1} : CartAddStart(s, u, g, q)
  \/ \E s \in Slots, u \in Users, c \in PromoInputs : CheckoutStart(s, u, c)
  \/ \E u \in Users, a \in TopUpAmounts : TopUp(u, a)
  \/ \E s \in Slots : ListDiscountsStart(s)
  \/ \E u \in Users, c \in PromoInputs, t \in PreviewSubtotals : ValidatePromo(u, c, t)
  \/ \E b \in BOOLEAN : ToggleDiscount(DiscountId, b)
  \/ DeleteDiscount(DiscountId)
  \/ Tick

LedgerSteps ==
  \/ \E s \in Slots : CartAddWrite(s)
  \/ \E s \in Slots : CheckoutReadCart(s)
  \/ \E s \in Slots : CheckoutReadLibrary(s)
  \/ \E s \in Slots : CheckoutReadGames(s)
  \/ \E s \in Slots : CheckoutReadDiscount(s)
  \/ \E s \in Slots : CheckoutReadUser(s)
  \/ \E s \in Slots : CheckoutCommit(s)
  \/ \E s \in Slots : CheckoutAbort(s)
  \/ \E s \in Slots : CheckoutUsage(s)
  \/ \E s \in Slots : CheckoutUsageFails(s)
  \/ \E s \in Slots : ListDiscountsSweep(s)

SerialNext == (AllIdle /\ LedgerStarts) \/ LedgerSteps

SerialSpec == SerialInit /\ [][SerialNext]_vars

(***************************************************************************)
(* The catalogue: purchases and code-less checkouts, one request at a      *)
(* time, of games that may be flagged inactive and that may be deleted     *)
(***************************************************************************)
\* game documents whose isActive is false are written outside these handlers;
\* the catalogue listings filter on isActive !== false
CatalogueInit ==
  /\ wallet = [u \in Users |-> 0]
  /\ games \in [GameIds -> UNION {{NewGame(g), [NewGame(g) EXCEPT !.isActive = FALSE]} :
                                    g \in GameIds}]
  /\ \A g \in GameIds : games[g].price = Price(g)
  /\ orders = [k \in Users \X GameIds |-> 0]
  /\ library = [u \in Users |-> {}]
  /\ cart = [u \in Users |-> Empty]
  /\ discounts = [d \in {DiscountId} |-> FixedCode]
  /\ now = 0
  /\ cache = Empty
  /\ req = [s \in Slots |-> Idle]
  /\ response = [op |-> "", u |-> "", res |-> ""]
  /\ settleLeft = MaxSettle
  /\ auxLeft = MaxAuxSerial

CatalogueStarts ==
  \/ \E s \in Slots, u \in Users, g \in GameIds : BuyStart(s, u, g)
  \/ \E s \in Slots, u \in Users, g \in GameIds : CartAddStart(s, u, g, 1)
  \/ \E s \in Slots, u \in Users : CheckoutStart(s, u, "")
  \/ \E u \in Users, a \in TopUpAmounts : TopUp(u, a)
  \/ \E g \in GameIds : DeleteGame(g)

CatalogueSteps ==
  \/ \E s \in Slots : BuyRead(s)
  \/ \E s \in Slots : BuyCommit(s)
  \/ \E s \in Slots : BuyAbort(s)
  \/ \E s \in Slots : BuyRespond(s)
  \/ \E s \in Slots : CartAddWrite(s)
  \/ \E s \in Slots : CheckoutReadCart(s)
  \/ \E s \in Slots : CheckoutReadLibrary(s)
  \/ \E s \in Slots : CheckoutReadGames(s)
  \/ \E s \in Slots : CheckoutReadUser(s)
  \/ \E s \in Slots : CheckoutCommit(s)
  \/ \E s \in Slots : CheckoutAbort(s)

CatalogueNext == (AllIdle /\ CatalogueStarts) \/ CatalogueSteps

CatalogueSpec == CatalogueInit /\ [][CatalogueNext]_vars

(***************************************************************************)
(* The usage step and its compensation, applied one after the other to     *)
(* every code record the ledger can hold: the catch block of the checkout  *)
(* entered after promoCodeUsed was set                                     *)
(***************************************************************************)
UsedCounts == {0, 1, 2}
UsageLimits == {1, 2, 3}

LedgerRecords ==
  {[code |-> StoredCode, type |-> t, value |-> 1, minSpend |-> 0, maxDiscount |-> 0,
    usageLimit |-> l, usedCount |-> c, usedBy |-> b, isActive |-> a, expireAt |-> ExpireAt] :
     t \in {"fixed", "percent"}, l \in UsageLimits, c \in UsedCounts,
     b \in SUBSET Users, a \in BOOLEAN}

CompensationInit ==
  /\ wallet = [u \in Users |-> 0]
  /\ games = [g \in GameIds |-> NewGame(g)]
  /\ orders = [k \in Users \X GameIds |-> 0]
  /\ library = [u \in Users |-> {}]
  /\ cart = [u \in Users |-> Empty]
  /\ discounts \in {[d \in {DiscountId} |-> rec] : rec \in LedgerRecords}
  /\ now = 0
  /\ cache = Empty
  /\ req = [s \in Slots |-> Idle]
  /\ response = [op |-> "", u |-> "", res |-> ""]
  /\ settleLeft = MaxSettle
  /\ auxLeft = 0

\* the usage step of a checkout by u that read the stored record in step 5:
\* the update succeeds and promoCodeUsed is set
ApplyUsage(s, u) ==
  /\ Free(s)
  /\ settleLeft > 0
  /\ settleLeft' = settleLeft - 1
  /\ DiscountId \in DOMAIN discounts
  /\ discounts' = [discounts EXCEPT ![DiscountId] = UsageUpdate(@, @, u)]
  /\ Continue(s, [Idle EXCEPT !.op = "checkout", !.pc = "catch", !.u = u,
                              !.promo = StoredCode, !.dref = DiscountId,
                              !.ddata = discounts[DiscountId], !.promoCodeUsed = TRUE])
  /\ UNCHANGED <<wallet, games, orders, library, cart, now, cache, auxLeft>>

\* the catch block entered after that: the rollback, then the 500 response
ApplyRollback(s) ==
  LET r == req[s] IN
  /\ r.op = "checkout" /\ r.pc = "catch"
  /\ CatchRollback(r)
  /\ Respond(s, "ServerError")
  /\ UNCHANGED <<wallet, games, orders, library, cart, now, cache, settleLeft, auxLeft>>

CompensationNext ==
  \/ \E s \in Slots, u \in Users : AllIdle /\ ApplyUsage(s, u)
  \/ \E s \in Slots : ApplyRollback(s)

CompensationSpec == CompensationInit /\ [][CompensationNext]_vars

(***************************************************************************)
(* Code administration: codes are created by concurrent requests, switched *)
(* on and off, and deleted                                                 *)
(***************************************************************************)
\* the document ids the store hands out
DiscountIds == {"d1", "d2", "d3"}

\* the codes an admin submits
CreateCodes == {"", "SAVE", "save", "GIFT"}

\* the record POST /api/discounts builds from its body
NewDiscount(code) == [FixedCode EXCEPT !.code = ToUpperCase(code)]

\* POST /api/discounts: a body without a code is rejected at once
CreateDiscountStart(s, code) ==
  /\ Free(s)
  /\ auxLeft > 0
  /\ auxLeft' = auxLeft - 1
  /\ IF code = ""
       THEN UNCHANGED <<req, response>>
       ELSE Continue(s, [Idle EXCEPT !.op = "create", !.pc = "exist", !.promo = code])
  /\ UNCHANGED <<store, now, cache, settleLeft>>

\* the duplicate check: a query by the upper-cased code
CreateDiscountQuery(s) ==
  LET r == req[s] IN
  /\ r.op = "create" /\ r.pc = "exist"
  /\ IF FindByCode(ToUpperCase(r.promo)) # {}
       THEN Finish(s)
       ELSE Continue(s, [r EXCEPT !.pc = "add"])
  /\ UNCHANGED <<store, now, cache, settleLeft, auxLeft>>

\* collection.add: the record is stored under a new document id
CreateDiscountAdd(s) ==
  LET r == req[s] IN
  /\ r.op = "create" /\ r.pc = "add"
  /\ \E d \in DiscountIds \ DOMAIN discounts :
       discounts' = [h \in DOMAIN discounts \cup {d} |->
                       IF h = d THEN NewDiscount(r.promo) ELSE discounts[h]]
  /\ Finish(s)
  /\ UNCHANGED <<wallet, games, orders, library, cart, now, cache, settleLeft, auxLeft>>

CodeAdminInit ==
  /\ wallet = [u \in Users |-> 0]
  /\ games = [g \in GameIds |-> NewGame(g)]
  /\ orders = [k \in Users \X GameIds |-> 0]
  /\ library = [u \in Users |-> {}]
  /\ cart = [u \in Users |-> Empty]
  /\ discounts = Empty
  /\ now = 0
  /\ cache = Empty
  /\ req = [s \in Slots |-> Idle]
  /\ response = [op |-> "", u |-> "", res |-> ""]
  /\ settleLeft = MaxSettle
  /\ auxLeft = MaxAuxSerial

CodeAdminNext ==
  \/ \E s \in Slots, c \in CreateCodes : CreateDiscountStart(s, c)
  \/ \E s \in Slots : CreateDiscountQuery(s)
  \/ \E s \in Slots : CreateDiscountAdd(s)
  \/ \E d \in DiscountIds, b \in BOOLEAN : ToggleDiscount(d, b)
  \/ \E d \in DiscountIds : DeleteDiscount(d)

CodeAdminSpec == CodeAdminInit /\ [][CodeAdminNext]_vars

(***************************************************************************)
(* The response cache: listings fill and read the cache in any             *)
(* interleaving while games are deleted and the entries expire             *)
(***************************************************************************)
CacheInit ==
  /\ InitStore
  /\ settleLeft = MaxSettle
  /\ auxLeft = MaxAuxSerial

CacheNext ==
  \/ \E s \in Slots : ListGamesStart(s)
  \/ \E s \in Slots : ListGamesRead(s)
  \/ \E s \in Slots : ListGamesSet(s)
  \/ \E s \in Slots : ListCategoriesStart(s)
  \/ \E s \in Slots : ListCategoriesSet(s)
  \/ \E g \in GameIds : DeleteGame(g)
  \/ Tick

CacheSpec == CacheInit /\ [][CacheNext]_vars

(***************************************************************************)
(* Properties                                                              *)
(***************************************************************************)
OrdersOf(g) == SumOver([u \in Users |-> orders[<<u, g>>]], Users)

\* C1: every settlement that commits lowers the stored wallet by exactly its
\* finalTotal, relative to the balance stored right before the commit
C1_DebitIsFinalTotal ==
  [][\A s \in Slots :
       /\ BuyCommit(s) => wallet'[req[s].u] = wallet[req[s].u] - req[s].game.price
       /\ CheckoutCommit(s) => wallet'[req[s].u] = wallet[req[s].u] - req[s].finalTotal]_vars

\* C2: every settlement that commits raises the stored totalSold of each
\* settled game by exactly the settled quantity
C2_SoldRisesByQuantity ==
  [][\A s \in Slots :
       /\ BuyCommit(s) => games'[req[s].g].totalSold = games[req[s].g].totalSold + 1
       /\ CheckoutCommit(s) =>
            \A h \in SettledLines(req[s]) :
              games'[h].totalSold = games[h].totalSold + req[s].filtered[h]]_vars

\* C3: every user's stored wallet balance is >= 0 in every reachable state
C3_WalletNonNegative == \A u \in Users : wallet[u] >= 0

\* a settlement has emptied a wallet
C3_Witness == \E u \in Users : wallet[u] = 0 /\ library[u] # {} /\ response.res = "ok"

\* C4: when the commit of a direct purchase or of a cart checkout aborts, the
\* wallet, the orders, every totalSold, the library, the cart and the discount
\* records are as before, and the request answers with a failure
C4_AbortLeavesNoTrace ==
  [][\A s \in Slots :
       (BuyAbort(s) \/ CheckoutAbort(s)) =>
         /\ store' = store
         /\ response'.res = "ServerError" /\ response'.u = req[s].u]_vars

\* a checkout that supplied the code failed at its commit while the code was in use
C4_Witness ==
  /\ response.op = "checkout" /\ response.res = "ServerError"
  /\ \E d \in DOMAIN discounts : discounts[d].usedCount > 0 /\ discounts[d].usedBy # {}

\* C5: no settlement settles a (user, game) pair that was settled before, so
\* that one Order and one LibraryEntry exist per settled pair
C5_PairSettledOnce ==
  [][\A s \in Slots :
       /\ BuyCommit(s) => req[s].g \notin library[req[s].u]
       /\ CheckoutCommit(s) => SettledLines(req[s]) \cap library[req[s].u] = {}]_vars

\* C6: each game's totalSold is >= the number of completed Order records
\* stored for that game
C6_SoldCoversOrders == \A g \in DOMAIN games : games[g].totalSold >= OrdersOf(g)

\* C7: a LibraryEntry for (u, g) exists only if a completed Order record for
\* (u, g) exists
C7_LibraryImpliesOrder == \A u \in Users : \A g \in library[u] : orders[<<u, g>>] >= 1

\* a user owns a game
C7_Witness == \E u \in Users : library[u] # {}

\* C8: a cart checkout whose finalTotal is greater than the wallet balance it
\* reads ends as insufficient funds, and no step it has taken up to there has
\* written anything
C8_InsufficientFundsNoMutation ==
  [][\A s \in Slots :
       (req[s].op = "checkout" /\ req'[s] # req[s]) =>
         /\ req[s].pc \in {"cart", "library", "games", "discount", "user"} => store' = store
         /\ (req[s].pc = "user" /\ wallet[req[s].u] < req[s].finalTotal) =>
              /\ req'[s] = Idle
              /\ response' = [op |-> "checkout", u |-> req[s].u, res |-> "InsufficientFunds"]]_vars

\* a checkout was refused for insufficient funds
C8_Witness ==
  /\ response.op = "checkout" /\ response.res = "InsufficientFunds"
  /\ cart[response.u] # Empty

\* C9: with the requests serialized, no code's usedCount exceeds its usageLimit
C9_UsedCountWithinLimit ==
  \A d \in DOMAIN discounts : discounts[d].usedCount <= discounts[d].usageLimit

\* C10: the usage step of a checkout that applied the fixed code with
\* usageLimit 1 and usedCount 0 leaves usedCount = 1, isActive = false and the
\* user in usedBy, and a checkout by another user that then supplies the code
\* is rejected as used up
UsedUpFor(d, u) ==
  /\ discounts[d].type = "fixed" /\ discounts[d].usageLimit = 1
  /\ discounts[d].usedCount = 1 /\ ~discounts[d].isActive
  /\ discounts[d].usedBy # {} /\ u \notin discounts[d].usedBy

C10_UsedUpCodeRejected ==
  [][\A s \in Slots :
       /\ (CheckoutUsage(s) /\ req[s].ddata = FixedCode /\ req[s].discount > 0) =>
            /\ discounts'[req[s].dref].usedCount = 1
            /\ ~discounts'[req[s].dref].isActive
            /\ req[s].u \in discounts'[req[s].dref].usedBy
       /\ (CheckoutReadDiscount(s) /\ \E d \in FindByCode(ToUpperCase(req[s].promo)) :
                                        UsedUpFor(d, req[s].u)) =>
            /\ req'[s] = Idle
            /\ response' = [op |-> "checkout", u |-> req[s].u, res |-> "DiscountInvalid"]]_vars

\* the code record a checkout finds for the code it supplied
FoundFor(r) == FindByCode(ToUpperCase(r.promo))

\* C11: a checkout that supplies a code whose usedBy already holds the
\* requesting user applies discount 0
C11_UsedByRejected ==
  [][\A s \in Slots :
       (CheckoutReadDiscount(s) /\ \E d \in FoundFor(req[s]) :
                                    req[s].u \in discounts[d].usedBy) =>
         req'[s].discount = 0]_vars

\* C12: a checkout that supplies a code whose minSpend is greater than the
\* cart subtotal, or whose usedCount is already >= its usageLimit, applies
\* discount 0
C12_MinSpendAndLimitRejected ==
  [][\A s \in Slots :
       (CheckoutReadDiscount(s) /\ \E d \in FoundFor(req[s]) :
                                    \/ discounts[d].minSpend > req[s].total
                                    \/ discounts[d].usedCount >= discounts[d].usageLimit) =>
         req'[s].discount = 0]_vars

\* C13: a checkout that supplies a code whose expiry is before the current
\* time applies discount 0 and charges the full subtotal, also when the code
\* is still flagged active
C13_ExpiredCodeNoDiscount ==
  [][\A s \in Slots :
       (CheckoutReadDiscount(s) /\ \E d \in FoundFor(req[s]) : discounts[d].expireAt < now) =>
         /\ req'[s].discount = 0
         /\ req'[s].finalTotal = req[s].total]_vars

\* a checkout has read a code that is expired and still flagged active, and
\* goes on without a discount
C13_Witness ==
  \E s \in Slots :
    /\ req[s].op = "checkout" /\ req[s].pc = "user" /\ req[s].dref # ""
    /\ req[s].ddata.isActive /\ req[s].ddata.expireAt < now
    /\ req[s].total > 0 /\ req[s].discount = 0

\* C14: for an accepted percent code with a cap m, the discount of the
\* checkout is min(subtotal * value / 100, m) and finalTotal is
\* max(subtotal - discount, 0)
C14_PercentDiscountCapped ==
  [][\A s \in Slots : \A d \in FoundFor(req[s]) :
       (/\ CheckoutReadDiscount(s)
        /\ CodeApplies(discounts[d], now)
        /\ discounts[d].type = "percent" /\ discounts[d].maxDiscount > 0
        /\ discounts[d].minSpend <= req[s].total
        /\ discounts[d].usedCount < discounts[d].usageLimit
        /\ req[s].u \notin discounts[d].usedBy) =>
         LET raw == (req[s].total * discounts[d].value) \div 100
             capped == IF raw <= discounts[d].maxDiscount THEN raw
                       ELSE discounts[d].maxDiscount
         IN /\ req'[s].discount = capped
            /\ req'[s].finalTotal = Max(req[s].total - capped, 0)]_vars

\* C15: a cart line whose game is in the user's library adds nothing to the
\* subtotal of the checkout, and the commit writes no Order and no totalSold
\* for it
C15_OwnedLineNotSettled ==
  [][\A s \in Slots :
       LET u == req[s].u
           unowned == (DOMAIN req[s].cartSnap \ library[u]) \cap DOMAIN games
           line == [h \in unowned |-> games[h].price * req[s].cartSnap[h]]
       IN /\ CheckoutReadGames(s) => req'[s].total = SumOver(line, unowned)
          /\ CheckoutCommit(s) =>
               \A g \in library[u] \cap DOMAIN req[s].cartSnap :
                 /\ orders'[<<u, g>>] = orders[<<u, g>>]
                 /\ g \in DOMAIN games => games'[g] = games[g]]_vars

\* a checkout has committed a cart that held an owned game next to a new one
C15_Witness ==
  \E s \in Slots :
    /\ req[s].op = "checkout" /\ req[s].pc = "usage"
    /\ DOMAIN req[s].filtered # {}
    /\ \E g \in DOMAIN req[s].cartSnap \ DOMAIN req[s].filtered : orders[<<req[s].u, g>>] = 1

\* C16: a checkout of a non-empty cart whose games the user all owns fails
\* and writes nothing: wallet, orders, totalSold, library, cart and discount
\* records stay as they are
C16_AllOwnedNoMutation ==
  [][\A s \in Slots :
       /\ CheckoutReadCart(s) => store' = store
       /\ (CheckoutReadLibrary(s) /\ DOMAIN req[s].cartSnap \subseteq library[req[s].u]) =>
            /\ store' = store
            /\ req'[s] = Idle
            /\ response' = [op |-> "checkout", u |-> req[s].u, res |-> "AllOwned"]]_vars

\* a checkout was refused because the user owns every game of the cart
C16_Witness ==
  /\ response.op = "checkout" /\ response.res = "AllOwned"
  /\ DOMAIN cart[response.u] # {}
  /\ DOMAIN cart[response.u] \subseteq library[response.u]

\* C17: a checkout writes the code record only in its usage step, which it
\* enters only by committing the settlement; no step before the commit and no
\* aborted commit changes usedCount or usedBy
C17_UsageOnlyAfterCommit ==
  [][\A s \in Slots :
       /\ (req[s].op = "checkout" /\ req'[s] # req[s] /\ discounts' # discounts) =>
            /\ req[s].pc = "usage"
            /\ SettledLines(req[s]) \subseteq library[req[s].u]
       /\ (req'[s].pc = "usage" /\ req[s].pc # "usage") => CheckoutCommit(s)]_vars

\* a checkout has committed and then recorded its user on the code
C17_Witness ==
  /\ response.op = "checkout" /\ response.res = "ok"
  /\ library[response.u] # {}
  /\ \E d \in DOMAIN discounts :
       response.u \in discounts[d].usedBy /\ discounts[d].usedCount > 0

\* C18: when the usage update fails after the commit, the checkout answers
\* success, and the debit, the orders, the totalSold and the library grants of
\* the commit stay in place
C18_UsageFailureKeepsSettlement ==
  [][\A s \in Slots :
       CheckoutUsageFails(s) =>
         /\ response' = [op |-> "checkout", u |-> req[s].u, res |-> "ok"]
         /\ wallet' = wallet /\ orders' = orders /\ games' = games /\ library' = library
         /\ \A g \in SettledLines(req[s]) :
              g \in library'[req[s].u] /\ orders'[<<req[s].u, g>>] >= 1]_vars

\* a checkout was paid at a discounted price and answered success while the
\* code record shows no use at all
C18_Witness ==
  /\ response.op = "checkout" /\ response.res = "ok"
  /\ wallet[response.u] % 2 = 1 /\ library[response.u] # {}
  /\ \E d \in DOMAIN discounts : discounts[d].usedCount = 0 /\ discounts[d].usedBy = {}

\* C19 as stated: a usage update that fails after the commit is followed by
\* the compensation and an error response
C19_CompensationBeforeError ==
  [][\A s \in Slots :
       CheckoutUsageFails(s) =>
         /\ response'.res = "ServerError"
         /\ req[s].dref \in DOMAIN discounts =>
              discounts'[req[s].dref] =
                RollbackUpdate(discounts[req[s].dref], req[s].ddata, req[s].u)]_vars

\* C19 as amended: a usage update that fails after the commit is followed by
\* no compensation and no error response; the code record stays as stored and
\* the checkout answers success
C19_UsageFailureNoCompensation ==
  [][\A s \in Slots :
       CheckoutUsageFails(s) =>
         /\ ~RollbackRuns(req[s])
         /\ discounts' = discounts
         /\ response'.res = "ok" /\ response'.u = req[s].u]_vars

\* a second user's discounted checkout succeeded while the code record still
\* shows only the first user's use
C19_Witness ==
  /\ response.op = "checkout" /\ response.res = "ok"
  /\ wallet[response.u] % 2 = 1 /\ library[response.u] # {}
  /\ \E d \in DOMAIN discounts :
       /\ discounts[d].usedCount = 1
       /\ discounts[d].usedBy # {} /\ response.u \notin discounts[d].usedBy

\* C20: the compensation that runs after an applied usage step puts usedCount
\* back to its value before the usage step, leaves the user out of usedBy and
\* leaves the code active if it was active before
C20_CompensationUndoesUsage ==
  [][\A s \in Slots :
       (ApplyRollback(s) /\ req[s].dref \in DOMAIN discounts) =>
         LET before == req[s].ddata
             after == discounts'[req[s].dref]
         IN /\ after.usedCount = before.usedCount
            /\ req[s].u \notin after.usedBy
            /\ before.isActive => after.isActive]_vars

\* the fields of a code record that are not its usage bookkeeping
Terms(d) == [code |-> d.code, type |-> d.type, value |-> d.value, minSpend |-> d.minSpend,
             maxDiscount |-> d.maxDiscount, usageLimit |-> d.usageLimit,
             expireAt |-> d.expireAt]

\* C21: the compensation changes nothing but usedCount, usedBy and isActive
\* of the code record: wallet, orders, totalSold, library and cart stay, and
\* so do the other fields of the record
C21_CompensationTouchesOnlyCode ==
  [][\A s \in Slots :
       ApplyRollback(s) =>
         /\ wallet' = wallet /\ orders' = orders /\ games' = games
         /\ library' = library /\ cart' = cart
         /\ DOMAIN discounts' = DOMAIN discounts
         /\ \A d \in DOMAIN discounts : Terms(discounts'[d]) = Terms(discounts[d])]_vars

\* the compensation has taken a use back from a code
C21_Witness ==
  /\ response.op = "checkout" /\ response.res = "ServerError"
  /\ \E d \in DOMAIN discounts :
       /\ discounts[d].isActive /\ response.u \notin discounts[d].usedBy
       /\ discounts[d].usageLimit > 1

\* C22: the usage step of a checkout whose code was not applied, because the
\* record it read was inactive or expired, leaves the code record unchanged
C22_UsageOnlyForAppliedCode ==
  [][\A s \in Slots :
       (/\ req[s].op = "checkout" /\ req[s].pc = "usage" /\ req'[s] # req[s]
        /\ req[s].discount = 0
        /\ ~req[s].ddata.isActive \/ req[s].ddata.expireAt <= now) =>
         discounts' = discounts]_vars

C24_MissingGameRejected ==
  [][\A s \in Slots :
       /\ (CheckoutReadGames(s) /\ ~(DOMAIN req[s].filtered \subseteq DOMAIN games)) =>
            /\ req'[s] = Idle
            /\ response'.op = "checkout" /\ response'.res # "ok"
            /\ store' = store
       /\ CheckoutCommit(s) => DOMAIN req[s].filtered \subseteq SettledLines(req[s])]_vars

\* C25: a direct purchase of a game the user owns is not rejected: with
\* sufficient funds it commits, debits the price again, adds another Order
\* and raises totalSold again
C25_OwnedGameBoughtAgain ==
  [][\A s \in Slots :
       LET u == req[s].u
           g == req[s].g
       IN /\ (BuyRead(s) /\ g \in library[u] /\ g \in DOMAIN games
                         /\ wallet[u] >= games[g].price) =>
               req'[s].pc = "commit"
          /\ (BuyCommit(s) /\ g \in library[u]) =>
               /\ wallet'[u] = wallet[u] - games[g].price
               /\ orders'[<<u, g>>] = orders[<<u, g>>] + 1
               /\ games'[g].totalSold = games[g].totalSold + 1]_vars

\* a user has bought the same game twice
C25_Witness ==
  \E u \in Users, g \in DOMAIN games :
    /\ orders[<<u, g>>] = 2 /\ games[g].totalSold = 2 /\ g \in library[u]
    /\ response = [op |-> "buy", u |-> u, res |-> "ok"]

\* C26: once a checkout has settled game g for user u, u's cart holds no
\* entry for g, whatever cart adds, removes and checkouts follow
C26_NoCartEntryForSettledGame ==
  \A u \in Users : \A g \in library[u] :
    orders[<<u, g>>] >= 1 => g \notin DOMAIN cart[u]

\* C27: usedCount and usedBy of a code change only in a step of a cart
\* checkout that is at its usage step or in its catch block
C27_UsageFieldsOnlyByCheckout ==
  [][\A d \in DOMAIN discounts \cap DOMAIN discounts' :
       (\/ discounts'[d].usedCount # discounts[d].usedCount
        \/ discounts'[d].usedBy # discounts[d].usedBy) =>
         \E s \in Slots : /\ req[s].op = "checkout" /\ req'[s] # req[s]
                          /\ req[s].pc \in {"usage", "commit", "catch"}]_vars

\* C28: no step lowers the stored totalSold of a game
C28_TotalSoldNeverDecreases ==
  [][\A g \in DOMAIN games \cap DOMAIN games' :
       games'[g].totalSold >= games[g].totalSold]_vars

C30_CartQuantityPositive ==
  \A u \in Users : \A g \in DOMAIN cart[u] : cart[u][g] > 0

\* C35: a settlement never wipes out credit that a top-up has put on the
\* wallet: its commit leaves the stored balance no lower than the balance
\* stored just before it minus the amount it charges
C35_TopUpNeverLost ==
  [][\A s \in Slots :
       /\ BuyCommit(s) => wallet'[req[s].u] >= wallet[req[s].u] - req[s].game.price
       /\ CheckoutCommit(s) => wallet'[req[s].u] >= wallet[req[s].u] - req[s].finalTotal]_vars

\* C36: a checkout without a code charges at least the sum of the unit
\* prices of the games it grants, whatever integer quantities the cart holds
C36_CodelessChargeCoversPrices ==
  [][\A s \in Slots :
       (CheckoutCommit(s) /\ req[s].promo = "") =>
         req[s].finalTotal >=
           SumOver([h \in SettledLines(req[s]) |-> req[s].gameMap[h].price],
                   SettledLines(req[s]))]_vars

\* C37: the usage step of a checkout never changes the active flag of a code
\* from false to true: a code the admin switched off stays off until the
\* admin switches it on again
C37_CheckoutNeverReactivates ==
  [][\A s \in Slots :
       (req[s].op = "checkout" /\ req[s].pc = "usage" /\ req'[s] # req[s]) =>
         \A d \in DOMAIN discounts \cap DOMAIN discounts' :
           ~discounts[d].isActive => ~discounts'[d].isActive]_vars

\* C38: the usage step of every checkout that applied a code raises the
\* stored usedCount of that code by exactly one, so that the count is the
\* initial count plus the number of checkouts that applied the code
C38_UsageCountsEveryCheckout ==
  [][\A s \in Slots :
       (CheckoutUsage(s) /\ req[s].discount > 0 /\ req[s].dref \in DOMAIN discounts) =>
         discounts'[req[s].dref].usedCount = discounts[req[s].dref].usedCount + 1]_vars

\* C39: every completed order of a user for a game is accompanied by the
\* library entry of that user for that game
C39_OrderImpliesLibrary ==
  \A u \in Users, g \in GameIds : orders[<<u, g>>] >= 1 => g \in library[u]

\* C32: the preview and the checkout both look a code up by its upper-cased
\* spelling: a spelling whose upper-cased form is a stored code is found by
\* both
C32_BothLookupsUpperCase ==
  [][/\ \A u \in Users, c \in PromoInputs, t \in PreviewSubtotals :
          (ValidatePromo(u, c, t) /\ FindByCode(ToUpperCase(c)) # {}) =>
            response'.res # "NotFound"
     /\ \A s \in Slots :
          (CheckoutReadDiscount(s) /\ FindByCode(ToUpperCase(req[s].promo)) # {}) =>
            req'[s].dref \in FindByCode(ToUpperCase(req[s].promo))]_vars

\* C40: for the record a checkout found, the preview's verdict on that
\* record for the checkout's user, subtotal and time is "valid" exactly when
\* the checkout applies a non-zero discount
C40_PreviewAgreesWithCheckout ==
  [][\A s \in Slots :
       (CheckoutReadDiscount(s) /\ req'[s].dref # "") =>
         ((PreviewChecks(req'[s].ddata, req[s].total, req[s].u, now) = "valid")
            <=> (req'[s].discount > 0))]_vars

\* C31: no two discount records hold the same code, also when the creating
\* requests run concurrently
C31_CodesUnique ==
  \A d \in DOMAIN discounts, e \in DOMAIN discounts :
    d # e => discounts[d].code # discounts[e].code

\* the entry under a key is there and the clock is not past its expiry
Live(k) == k \in DOMAIN cache /\ now <= cache[k].expire

\* C33: a listing is answered from the cache exactly when its entry exists
\* and the clock is not past the entry's expiry, and what getCache returns is
\* then the stored value; a read past the expiry removes the entry; an entry
\* leaves the cache only by such a read or by an invalidation, never by the
\* passing of time or by the read of another key
C33_CacheReadSemantics ==
  [][/\ \A s \in Slots :
          /\ ListGamesStart(s) =>
               /\ (req'[s].pc = "idle") <=> Live(GamesKey)
               /\ Live(GamesKey) =>
                    getCache(cache, GamesKey, now).data = cache[GamesKey].data
               /\ ~Live(GamesKey) => GamesKey \notin DOMAIN cache'
          /\ ListCategoriesStart(s) =>
               /\ (req'[s].pc = "idle") <=> Live(CategoriesKey)
               /\ Live(CategoriesKey) =>
                    getCache(cache, CategoriesKey, now).data = cache[CategoriesKey].data
               /\ ~Live(CategoriesKey) => CategoriesKey \notin DOMAIN cache'
     /\ \A k \in DOMAIN cache :
          k \notin DOMAIN cache' =>
            \/ ~Live(k) /\ k = GamesKey /\ \E s \in Slots : ListGamesStart(s)
            \/ ~Live(k) /\ k = CategoriesKey /\ \E s \in Slots : ListCategoriesStart(s)
            \/ k = GamesKey /\ games' # games]_vars

\* a listing has just found its entry expired and removed it, with no game
\* deleted, while the categories entry that nobody read is still cached
C33_Witness ==
  /\ \E s \in Slots : req[s].op = "games" /\ req[s].pc = "read"
  /\ response = [op |-> "games", u |-> "", res |-> "fresh"]
  /\ GamesKey \notin DOMAIN cache
  /\ CategoriesKey \in DOMAIN cache
  /\ auxLeft = MaxAuxSerial
  /\ now = MaxTime

\* C34: a game listing answered from the cache never holds a game that a
\* completed deletion has removed from the store
C34_NoStaleListingAfterMutation ==
  [][\A s \in Slots :
       (ListGamesStart(s) /\ Live(GamesKey)) =>
         DOMAIN cache[GamesKey].data \subseteq DOMAIN games]_vars
====
